---- MODULE Spec2Model ----
(***************************************************************************)
(* The management-rating script app.py: the rating pipeline (scorer        *)
(* result -> normalize_ratings -> justification gate -> red-flag override  *)
(* -> average -> new_row) and the history ledger kept in                   *)
(* management_ratings.csv (read_csv on every script run, filter + concat + *)
(* to_csv on a rating run, header-only rewrite on reset).                  *)
(*                                                                         *)
(* Numbers with decimals are kept as integers scaled by 10^4 (Scale): an   *)
(* Average of 3.1667 is 31667.                                             *)
(***************************************************************************)
EXTENDS Integers, Sequences, FiniteSets, TLC

\* ------------------------------------------------------------ bounds
\* longest Raw Rating Mapping drawn with free labels and values
MaxPairs == 2
\* largest number of red flags in a scorer response
MaxFlags == 2
\* most categories given a too-short justification in one response
MaxShort == 2
\* most script runs of one browser session (rating runs and resets)
MaxRuns == 3
\* most script runs of each of the two concurrent sessions
MaxSessionRuns == 2

\* ------------------------------------------------- program constants
\* the upper score of normalize_ratings' range test 0 <= value <= 5
MaxScore == 5
\* len(reason.strip()) < 30
MinJustification == 30
\* len(red_flags) >= 2
RedFlagTrigger == 2
\* avg_override > 3.5, scaled
OverrideMean == 35000
\* ratings[k] > 4
ClampAbove == 4
\* ratings[k] = 3
ClampTo == 3
\* round(..., 4): four decimals, 10^4
Scale == 10000

categories ==
    << "Strategy & Vision", "Execution & Delivery",
       "Communication Clarity", "Capital Allocation",
       "Governance & Integrity", "Outlook & Realism" >>

Categories == { categories[i] : i \in DOMAIN categories }

normalization_map ==
    [ k \in { "Operational Performance", "Financial Performance",
              "Strategic Growth Initiatives", "Forward-looking Statements",
              "Overall Transparency", "Investor Relations" } |->
        CASE k = "Operational Performance"      -> "Execution & Delivery"
          [] k = "Financial Performance"        -> "Capital Allocation"
          [] k = "Strategic Growth Initiatives" -> "Strategy & Vision"
          [] k = "Forward-looking Statements"   -> "Outlook & Realism"
          [] k = "Overall Transparency"         -> "Governance & Integrity"
          [] k = "Investor Relations"           -> "Governance & Integrity" ]

\* ------------------------------------------------------------ values
\* A JSON value as json.loads hands it over: its Python type and its number
\* (a bool's number is 0 or 1, a string's is the number it spells).
PyInt(n) == [t |-> "int", v |-> n]
PyBool(n) == [t |-> "bool", v |-> n]
PyFloat(n) == [t |-> "float", v |-> n]
PyStr(n) == [t |-> "str", v |-> n]

\* isinstance(value, int): bool is a subclass of int
IsInstanceInt(value) == value.t \in {"int", "bool"}

\* normalization_map.get(key, key)
CoreKey(key) ==
    IF key \in DOMAIN normalization_map THEN normalization_map[key] ELSE key

\* d[k] = v on a Python dict: the key is added when it is not there yet
DictSet(d, k, v) == [x \in DOMAIN d \cup {k} |-> IF x = k THEN v ELSE d[x]]

\* the test without "core_key in normalized": any label is taken as a key
AcceptsAnyKey(normalized, key, value) ==
    /\ IsInstanceInt(value)
    /\ 0 <= value.v
    /\ value.v <= MaxScore

\* the test of line 86 for one (key, value) pair
Accepts(normalized, key, value) ==
    /\ CoreKey(key) \in DOMAIN normalized
    /\ IsInstanceInt(value)
    /\ 0 <= value.v
    /\ value.v <= MaxScore

RECURSIVE NormalizeLoop(_, _)
\* the for loop of normalize_ratings over ratings.items(), in insertion order
NormalizeLoop(normalized, items) ==
    IF items = << >> THEN normalized
    ELSE LET key == Head(items)[1]
             value == Head(items)[2]
             next == IF Accepts(normalized, key, value)
                     THEN DictSet(normalized, CoreKey(key), value)
                     ELSE normalized
         IN  NormalizeLoop(next, Tail(items))

\* the loop run over the items from the last to the first: the first
\* valid pair of a category is the one that stays
NormalizeFirstWins(ratings) ==
    NormalizeLoop([cat \in Categories |-> PyInt(0)],
                  [i \in DOMAIN ratings |-> ratings[Len(ratings) + 1 - i]])

\* normalize_ratings(ratings): ratings is the dict as its sequence of items
normalize_ratings(ratings) ==
    NormalizeLoop([cat \in Categories |-> PyInt(0)], ratings)

\* ------------------------------------------------- the scorer's result
\* What generate_auto_rating has in hand after the model call:
\*   kind "raises"      the call itself raised (no key, no network)
\*   kind "unparseable" json.loads raised on the text
\*   kind "nondict"     the text is JSON but not an object
\*   kind "dict"        a JSON object: top are its own label -> score items (the
\*                      flat shape), has the structured fields it carries,
\*                      ratings / justification / red_flags their contents;
\*                      justification[cat] is len(text.strip()), 0 when absent,
\*                      red_flags is the list's length.
NoJustification == [cat \in Categories |-> 0]

Response(kind, top, has, ratings, justification, red_flags) ==
    [kind |-> kind, top |-> top, has |-> has, ratings |-> ratings,
     justification |-> justification, red_flags |-> red_flags]

\* generate_auto_rating's return value: the parsed object, or {} after the
\* st.error of the except branch
generate_auto_rating(response) ==
    IF response.kind = "unparseable"
    THEN Response("dict", << >>, {}, << >>, NoJustification, 0)
    ELSE response

\* result.get('ratings', {})
ratings_raw(result) == IF "ratings" \in result.has THEN result.ratings ELSE << >>

\* result.get('justification', {}) as the stripped length per category
justifications(result) ==
    IF "justification" \in result.has THEN result.justification ELSE NoJustification

\* len(result.get('red_flags', []))
red_flags(result) == IF "red_flags" \in result.has THEN result.red_flags ELSE 0

\* ------------------------------------------------------- the pipeline
\* len(justifications.get(key, "").strip())
ReasonLength(just, key) == IF key \in DOMAIN just THEN just[key] ELSE 0

\* the "Remove invalid ratings" loop over the keys of ratings
HygieneGate(ratings, just) ==
    [key \in DOMAIN ratings |->
        IF ReasonLength(just, key) < MinJustification
        THEN PyInt(0) ELSE ratings[key]]

\* [v for v in ratings.values() if isinstance(v, int)], as the keys kept
valid_scores(ratings) == { key \in DOMAIN ratings : IsInstanceInt(ratings[key]) }

RECURSIVE SumScores(_, _)
\* sum(v for v in ...) over the values of the keys given
SumScores(ratings, keys) ==
    IF keys = {} THEN 0
    ELSE LET k == CHOOSE x \in keys : TRUE
         IN  ratings[k].v + SumScores(ratings, keys \ {k})

\* avg_override > 3.5 with
\* avg_override = sum(v for v in ratings.values() if isinstance(v, int))
\*                / len(categories)
OverrideFires(ratings, flags) ==
    /\ flags >= RedFlagTrigger
    /\ Scale * SumScores(ratings, valid_scores(ratings))
         > OverrideMean * Len(categories)

\* the red-flag block
RedFlagOverride(ratings, flags) ==
    IF OverrideFires(ratings, flags)
    THEN [key \in DOMAIN ratings |->
            IF ratings[key].v # 0 /\ ratings[key].v > ClampAbove
            THEN PyInt(ClampTo) ELSE ratings[key]]
    ELSE ratings

\* round(total / n, 4), scaled: no quotient of a sum of scores by 1..6 lies
\* on a rounding tie
Round4(total, n) == (2 * Scale * total + n) \div (2 * n)

\* avg_score = round(sum(valid_scores) / len(valid_scores), 4)
\*             if valid_scores else 0
ComputeAverage(ratings) ==
    IF valid_scores(ratings) = {} THEN 0
    ELSE Round4(SumScores(ratings, valid_scores(ratings)),
                Cardinality(valid_scores(ratings)))

\* ------------------------------------------------------ the CSV file
\* A cell of a text column of the DataFrame: a string, or NaN.
StrCell(s) == [na |-> FALSE, text |-> s]
NaN == [na |-> TRUE, text |-> ""]

\* history_df["Company"] == company_name on one cell: NaN equals nothing
CellEq(cell, s) == ~cell.na /\ cell.text = s

\* read_csv's default na_values (the ones every pandas release has)
NaValues ==
    { "", "#N/A", "#N/A N/A", "#NA", "-1.#IND", "-1.#QNAN", "-NaN", "-nan",
      "1.#IND", "1.#QNAN", "<NA>", "N/A", "NA", "NULL", "NaN", "n/a", "nan",
      "null" }

\* read_csv on a cell of Date, Company or Quarter
ReadCell(text) == IF text \in NaValues THEN NaN ELSE StrCell(text)

\* to_csv on a cell of Date, Company or Quarter (na_rep is '')
FormatCell(cell) == IF cell.na THEN "" ELSE cell.text

\* the numerals of the scores
ScoreText == [n \in 0..MaxScore |-> ToString(n)]

\* to_csv on a score: str(value)
FormatScore(value) ==
    IF value.t = "bool" THEN (IF value.v = 1 THEN "True" ELSE "False")
    ELSE IF value.v \in DOMAIN ScoreText THEN ScoreText[value.v]
    ELSE ToString(value.v)

\* read_csv on a score column holding numerals (the ledger runs below write
\* ints only; a column holding True would be read as text)
ReadScore(text) == PyInt(CHOOSE n \in DOMAIN ScoreText : ScoreText[n] = text)

\* the decimals of a float's repr, trailing zeros dropped, one digit kept
FractionText(f) ==
    LET pad(n, w) == (IF n < 10 /\ w > 1 THEN "0" ELSE "")
                     \o (IF n < 100 /\ w > 2 THEN "0" ELSE "")
                     \o (IF n < 1000 /\ w > 3 THEN "0" ELSE "")
                     \o ToString(n)
    IN  IF f % 1000 = 0 THEN pad(f \div 1000, 1)
        ELSE IF f % 100 = 0 THEN pad(f \div 100, 2)
        ELSE IF f % 10 = 0 THEN pad(f \div 10, 3)
        ELSE pad(f, 4)

\* repr of a float of at most four decimals
Repr(a) == ToString(a \div Scale) \o "." \o FractionText(a % Scale)

\* the Averages the script can write: round(total / n, 4)
Averages ==
    { Round4(total, n) : total \in 0..(MaxScore * Len(categories)),
                         n \in 1..Len(categories) }

\* their texts
AverageText == [a \in Averages |-> Repr(a)]

\* to_csv on Average: repr of the rounded float
FormatFloat(a) == IF a \in DOMAIN AverageText THEN AverageText[a] ELSE Repr(a)

\* read_csv on Average: the float the text spells
ReadFloat(text) == CHOOSE a \in DOMAIN AverageText : AverageText[a] = text

\* one line of management_ratings.csv from one row of the DataFrame
FormatRow(row) ==
    [Date |-> FormatCell(row.Date), Company |-> FormatCell(row.Company),
     Quarter |-> FormatCell(row.Quarter),
     scores |-> [cat \in Categories |-> FormatScore(row.scores[cat])],
     Average |-> FormatFloat(row.Average)]

\* one row of the DataFrame from one line of management_ratings.csv
ReadRow(line) ==
    [Date |-> ReadCell(line.Date), Company |-> ReadCell(line.Company),
     Quarter |-> ReadCell(line.Quarter),
     scores |-> [cat \in Categories |-> ReadScore(line.scores[cat])],
     Average |-> ReadFloat(line.Average)]

\* history_df.to_csv(history_file, index=False)
to_csv(df) == [exists |-> TRUE, lines |-> [i \in DOMAIN df |-> FormatRow(df[i])]]

\* pd.read_csv(history_file) if os.path.exists(history_file) else the empty
\* DataFrame
read_csv(file) ==
    IF file.exists THEN [i \in DOMAIN file.lines |-> ReadRow(file.lines[i])]
    ELSE << >>

\* --------------------------------------------------------- the ledger
\* new_row: the Date, Company and Quarter strings, **ratings, Average
NewRow(date, company, qtr, ratings, avg) ==
    [Date |-> StrCell(date), Company |-> StrCell(company),
     Quarter |-> StrCell(qtr), scores |-> ratings, Average |-> avg]

\* history_df[~((Company == company_name) & (Quarter == quarter))]
DropKey(df, company, qtr) ==
    SelectSeq(df, LAMBDA row :
        ~(CellEq(row.Company, company) /\ CellEq(row.Quarter, qtr)))

\* the filter and pd.concat([history_df, DataFrame([new_row])])
Upsert(df, row) ==
    Append(DropKey(df, row.Company.text, row.Quarter.text), row)

\* ----------------------------------------------------- one rating run
\* the red-flag block run before the justification gate
PipelineOverrideFirst(result) ==
    LET normalized == normalize_ratings(ratings_raw(result))
        clamped == RedFlagOverride(normalized, red_flags(result))
        final == HygieneGate(clamped, justifications(result))
    IN  [normalized |-> normalized, gated |-> final, ratings |-> final,
         avg_score |-> ComputeAverage(final)]

\* lines 197-215 on the scorer's result: the record of ratings after
\* normalize_ratings, after the justification gate, after the red-flag
\* block, and avg_score
Pipeline(result) ==
    LET normalized == normalize_ratings(ratings_raw(result))
        gated == HygieneGate(normalized, justifications(result))
        final == RedFlagOverride(gated, red_flags(result))
    IN  [normalized |-> normalized, gated |-> gated, ratings |-> final,
         avg_score |-> ComputeAverage(final)]

\* The button handler, lines 186-229, on the DataFrame read at the top of
\* the script. A scorer call that raises, or a parsed value that is no
\* object (result.get raises AttributeError), ends the run before anything
\* is written; unparseable text is reported with st.error and the run goes
\* on with {}.
Handler(df, response, company, qtr, date) ==
    LET result == generate_auto_rating(response)
        p == Pipeline(result)
        row == NewRow(date, company, qtr, p.ratings, p.avg_score)
    IN  [raised |-> response.kind \in {"raises", "nondict"},
         st_error |-> response.kind = "unparseable",
         p |-> p, new_row |-> row, history_df |-> Upsert(df, row)]

\* ------------------------------------------------------------- inputs
\* Labels and values of the Raw Rating Mappings drawn freely: canonical
\* names, aliases (two of them of one category), a label the table does not
\* know; scores in and out of range, of every JSON type.
FreeLabels ==
    { "Strategy & Vision", "Governance & Integrity",
      "Strategic Growth Initiatives", "Overall Transparency",
      "Investor Relations", "Innovation" }

FreeValues ==
    { PyInt(-1), PyInt(2), PyInt(5), PyInt(6), PyFloat(4), PyStr(4), PyBool(1) }

\* the items of a dict: no label twice
ItemSeqs(n) ==
    { items \in [1..n -> FreeLabels \X FreeValues] :
        \A i, j \in 1..n : i # j => items[i][1] # items[j][1] }

RawMappings == UNION { ItemSeqs(n) : n \in 0..MaxPairs }

\* Mappings that follow the prompt: canonical labels in the prompt's order,
\* any of them left out, scores around the override's thresholds.
PromptScores == {4, 5}

PromptMappings ==
    UNION { { SelectSeq([i \in DOMAIN categories |->
                            << categories[i],
                               PyInt(IF categories[i] \in given
                                     THEN score[categories[i]] ELSE -1) >>],
                        LAMBDA item : item[1] \in given) :
              score \in [given -> PromptScores] } :
            given \in SUBSET Categories }

AllLong == [cat \in Categories |-> MinJustification]

\* justifications with at most MaxShort categories one character too short,
\* or with one category's justification missing
Justifications ==
    { [cat \in Categories |->
          IF cat \in short THEN MinJustification - 1 ELSE MinJustification] :
        short \in { S \in SUBSET Categories : Cardinality(S) <= MaxShort } }
    \cup { [AllLong EXCEPT ![cat] = 0] : cat \in Categories }

Structured(items, just, flags) ==
    Response("dict", << >>, {"ratings", "justification", "red_flags"},
             items, just, flags)

Flat(items) == Response("dict", items, {}, << >>, NoJustification, 0)

RatingsOnly(items) == Response("dict", << >>, {"ratings"}, items, NoJustification, 0)

Unparseable == Response("unparseable", << >>, {}, << >>, NoJustification, 0)
NonDict == Response("nondict", << >>, {}, << >>, NoJustification, 0)
Raises == Response("raises", << >>, {}, << >>, NoJustification, 0)
NoResponse == Response("none", << >>, {}, << >>, NoJustification, 0)

\* a mapping giving the six categories these scores, 0 for "left out"
Scored(a, b, c, d, e, f) ==
    SelectSeq(<< <<categories[1], PyInt(a)>>, <<categories[2], PyInt(b)>>,
                 <<categories[3], PyInt(c)>>, <<categories[4], PyInt(d)>>,
                 <<categories[5], PyInt(e)>>, <<categories[6], PyInt(f)>> >>,
              LAMBDA item : item[2].v # 0)

\* the spec's worked scenarios: a ten-character justification; scores
\* 5, 3, none, 4, 2, 5
Scenarios ==
    { Structured(Scored(5, 5, 5, 5, 5, 5),
                 [AllLong EXCEPT !["Capital Allocation"] = 10], 0),
      Structured(Scored(5, 3, 0, 4, 2, 5), AllLong, 0) }

\* the scorer responses the pipeline is run on
IsPipeResponse(r) ==
    \/ r \in {Unparseable, NonDict, Raises}
    \/ r \in Scenarios
    \/ \E items \in RawMappings :
         r \in {Structured(items, AllLong, 0), Flat(items)}
    \/ \E items \in PromptMappings : r = RatingsOnly(items)
    \/ \E items \in PromptMappings, just \in Justifications,
          flags \in (RedFlagTrigger - 1)..MaxFlags :
         r = Structured(items, just, flags)

\* company names as extract_company_name returns them ("Welcome to NULL
\* Group." gives NULL; names that spell a number, which read_csv would turn
\* into one, are left out), quarters as extract_quarter_info formats them
Companies == {"Acme", "NULL"}
Quarters == {"Q1 FY24", "Q2 FY24"}
Dates == {"2024-05-01", "2024-05-02"}

LedgerResponses ==
    { Unparseable, NonDict, Raises,
      Structured(Scored(4, 4, 4, 4, 4, 4), AllLong, 0),
      Structured(Scored(5, 5, 5, 5, 5, 5), AllLong, RedFlagTrigger) }

Sessions == {1, 2}

\* -------------------------------------------------------------- state
VARIABLES
    history_file,   \* management_ratings.csv: [exists, lines]
    response,       \* what the scorer gave the latest rating run
    st_error,       \* the latest run showed "Failed to parse AI output"
    status,         \* ready | saved | exception | cleared
    normalized,     \* ratings after normalize_ratings
    gated,          \* ratings after the justification gate
    ratings,        \* ratings after the red-flag block
    avg_score,
    new_row,
    runs,           \* script runs of the session so far
    sessions,       \* the two concurrent sessions: pc, history_df, ...
    version         \* how often management_ratings.csv was written

vars ==
    << history_file, response, st_error, status, normalized, gated, ratings,
       avg_score, new_row, runs, sessions, version >>

locals == << normalized, gated, ratings, avg_score, new_row >>

ZeroRatings == [cat \in Categories |-> PyInt(0)]
NoRow == NewRow("", "", "", ZeroRatings, 0)
NoFile == [exists |-> FALSE, lines |-> << >>]

IdleSession ==
    [pc |-> "idle", history_df |-> << >>, company_name |-> "", quarter |-> "",
     loaded |-> 0, runs |-> 0, saved |-> FALSE, new_row |-> NoRow]

InitLocals ==
    /\ st_error = FALSE
    /\ status = "ready"
    /\ normalized = ZeroRatings
    /\ gated = ZeroRatings
    /\ ratings = ZeroRatings
    /\ avg_score = 0
    /\ new_row = NoRow
    /\ runs = 0
    /\ sessions = [p \in Sessions |-> IdleSession]
    /\ version = 0

\* no management_ratings.csv yet, nothing run
Init ==
    /\ history_file = NoFile
    /\ response = NoResponse
    /\ InitLocals

\* One script run with the button pressed: read_csv at the top, the handler,
\* to_csv at its end.
RatingRun(resp, company, qtr, date) ==
    \E h \in {Handler(read_csv(history_file), resp, company, qtr, date)} :
        /\ response' = resp
        /\ st_error' = h.st_error
        /\ IF h.raised
           THEN /\ status' = "exception"
                /\ normalized' = ZeroRatings
                /\ gated' = ZeroRatings
                /\ ratings' = ZeroRatings
                /\ avg_score' = 0
                /\ new_row' = NoRow
                /\ UNCHANGED history_file
           ELSE /\ status' = "saved"
                /\ normalized' = h.p.normalized
                /\ gated' = h.p.gated
                /\ ratings' = h.p.ratings
                /\ avg_score' = h.p.avg_score
                /\ new_row' = h.new_row
                /\ history_file' = to_csv(h.history_df)

\* "Run AI Comparison and Rating"
Run ==
    /\ runs < MaxRuns
    /\ \E resp \in LedgerResponses, company \in Companies,
          qtr \in Quarters, date \in Dates :
          RatingRun(resp, company, qtr, date)
    /\ runs' = runs + 1
    /\ UNCHANGED << sessions, version >>

\* "Confirm Clear All History": the tab is drawn only when history_df is
\* not empty
ResetTable ==
    /\ runs < MaxRuns
    /\ read_csv(history_file) # << >>
    /\ history_file' = to_csv(<< >>)
    /\ status' = "cleared"
    /\ st_error' = FALSE
    /\ runs' = runs + 1
    /\ UNCHANGED << response, locals, sessions, version >>

Next == Run \/ ResetTable

Spec == Init /\ [][Next]_vars

\* ------------------------------------------------ the pipeline alone
\* one rating run on each scorer response, from no history
InitPipe ==
    /\ history_file = NoFile
    /\ IsPipeResponse(response)
    /\ InitLocals

Score ==
    /\ status = "ready"
    /\ RatingRun(response, "Acme", "Q1 FY24", "2024-05-01")
    /\ UNCHANGED << runs, sessions, version >>

NextPipe == Score

SpecPipe == InitPipe /\ [][NextPipe]_vars

\* ------------------------------------------- two sessions at one file
\* Each session runs the script again and again: read_csv at the top of the
\* run, then the scorer call, during which the other session may run, then
\* the handler's filter, concat and to_csv on the DataFrame read before.
RaceResponses == { Raises, Structured(Scored(4, 4, 4, 4, 4, 4), AllLong, 0) }

RaceDate == "2024-05-01"

InitRace ==
    /\ history_file = NoFile
    /\ response = NoResponse
    /\ InitLocals

\* line 166, then the transcript gives company and quarter
Load(p) ==
    /\ sessions[p].pc = "idle"
    /\ sessions[p].runs < MaxSessionRuns
    /\ \E company \in Companies, qtr \in Quarters :
         sessions' = [sessions EXCEPT ![p] =
            [@ EXCEPT !.pc = "loaded",
                      !.history_df = read_csv(history_file),
                      !.company_name = company,
                      !.quarter = qtr,
                      !.loaded = version]]
    /\ UNCHANGED << history_file, response, st_error, status, locals, runs,
                    version >>

\* lines 192-229 once the scorer has answered
Commit(p) ==
    /\ sessions[p].pc = "loaded"
    /\ \E resp \in RaceResponses :
       \E h \in {Handler(sessions[p].history_df, resp, sessions[p].company_name,
                         sessions[p].quarter, RaceDate)} :
          IF h.raised
          THEN /\ sessions' = [sessions EXCEPT ![p] =
                    [@ EXCEPT !.pc = "idle", !.history_df = << >>,
                              !.runs = @ + 1, !.saved = FALSE,
                              !.new_row = NoRow]]
               /\ UNCHANGED << history_file, version >>
          ELSE /\ sessions' = [sessions EXCEPT ![p] =
                    [@ EXCEPT !.pc = "idle", !.history_df = << >>,
                              !.runs = @ + 1, !.saved = TRUE,
                              !.new_row = h.new_row]]
               /\ history_file' = to_csv(h.history_df)
               /\ version' = version + 1
    /\ UNCHANGED << response, st_error, status, locals, runs >>

NextRace == \E p \in Sessions : Load(p) \/ Commit(p)

SpecRace == InitRace /\ [][NextRace]_vars

\* ------------------------------------------------------------- claims
\* What the claims speak of, stated on the scorer's response itself.

\* the label -> score items the latest run's scorer put under "ratings"
GivenItems ==
    IF response.kind = "dict" /\ "ratings" \in response.has
    THEN response.ratings ELSE << >>

\* the justification lengths and the red-flag count the scorer gave
GivenJustification ==
    IF response.kind = "dict" /\ "justification" \in response.has
    THEN response.justification ELSE NoJustification

GivenFlags ==
    IF response.kind = "dict" /\ "red_flags" \in response.has
    THEN response.red_flags ELSE 0

\* the canonical category a label stands for, through the alias table
Resolves(label, cat) ==
    \/ label = cat
    \/ label \in DOMAIN normalization_map /\ normalization_map[label] = cat

\* an integer in 0..5
ValidScore(value) == value.t \in {"int", "bool"} /\ value.v \in 0..5

\* the positions of items that give cat a valid score
ValidFor(items, cat) ==
    { i \in DOMAIN items : Resolves(items[i][1], cat) /\ ValidScore(items[i][2]) }

\* the categories that were given a valid score
ScoredCategories(items) == { cat \in Categories : ValidFor(items, cat) # {} }

Last(S) == CHOOSE i \in S : \A j \in S : j <= i

Lines == { history_file.lines[i] : i \in DOMAIN history_file.lines }

\* the line written for the latest run: to_csv puts new_row last
WrittenLine == history_file.lines[Len(history_file.lines)]

\* C1: the persisted ledger never holds two entries with the same
\* (Company, Quarter) key.
C1_OneEntryPerKey ==
    \A i, j \in DOMAIN history_file.lines :
        i # j =>
            ~(/\ history_file.lines[i].Company = history_file.lines[j].Company
              /\ history_file.lines[i].Quarter = history_file.lines[j].Quarter)

\* C2: after a rating run has saved its entry e, a fresh load of the file
\* holds exactly one entry with e's (Company, Quarter), and that entry
\* equals e field by field (replacement and idempotence are the cases where
\* the file already held an entry with e's key).
C2_UpsertRoundTrip ==
    status = "saved" =>
        LET df == read_csv(history_file)
            hits == { i \in DOMAIN df :
                        /\ df[i].Company = new_row.Company
                        /\ df[i].Quarter = new_row.Quarter }
        IN  /\ Cardinality(hits) = 1
            /\ \A i \in hits : df[i] = new_row

\* C3: a rating run whose scorer text does not parse reports the error and
\* leaves the persisted ledger as it was.
C3_MalformedWritesNothing ==
    [][ (runs' = runs + 1 /\ status' # "cleared"
            /\ response'.kind = "unparseable")
        => (st_error' /\ history_file' = history_file) ]_vars

\* C4: the persisted Average is the mean, to four decimals, of the scores of
\* the categories that were given a valid score, and 0 when none was.
C4_AverageOfScoredOnly ==
    status = "saved" =>
        LET scored == ScoredCategories(GivenItems)
        IN  avg_score = IF scored = {} THEN 0
                        ELSE Round4(SumScores(ratings, scored),
                                    Cardinality(scored))

\* C5 as claimed: every pair with a recognized label and a valid value is
\* returned for its category, and a category given an invalid value, or no
\* recognized label, holds 0.
C5_EveryValidPairReturned ==
    status = "saved" =>
        /\ \A i \in DOMAIN GivenItems : \A cat \in Categories :
              (Resolves(GivenItems[i][1], cat) /\ ValidScore(GivenItems[i][2]))
                  => normalized[cat] = GivenItems[i][2]
        /\ \A cat \in Categories :
              (\/ \E i \in DOMAIN GivenItems :
                     /\ Resolves(GivenItems[i][1], cat)
                     /\ ~ValidScore(GivenItems[i][2])
               \/ ~\E i \in DOMAIN GivenItems : Resolves(GivenItems[i][1], cat))
                  => normalized[cat] = PyInt(0)

\* C5 as amended: each category holds the value of the last pair, in the
\* mapping's order, whose label resolves to it and whose value is an integer
\* in 0..5, and holds 0 when there is no such pair.
C5_LastValidPairWins ==
    status = "saved" =>
        \A cat \in Categories :
            normalized[cat] =
                IF ValidFor(GivenItems, cat) = {} THEN PyInt(0)
                ELSE GivenItems[Last(ValidFor(GivenItems, cat))][2]

\* a run where two labels of one category carried different valid scores
C5_Witness ==
    /\ status = "saved"
    /\ \E cat \in Categories : \E i, j \in ValidFor(GivenItems, cat) :
          /\ i < j
          /\ GivenItems[i][2] # GivenItems[j][2]
          /\ normalized[cat] = GivenItems[j][2]

C7_OverrideOnValidMean ==
    status = "saved" =>
        LET scored == ScoredCategories(GivenItems)
            fires == /\ GivenFlags >= 2
                     /\ scored # {}
                     /\ 2 * SumScores(gated, scored) > 7 * Cardinality(scored)
        IN  \A cat \in Categories :
                ratings[cat].v = IF fires /\ gated[cat].v > 4 THEN 3
                                 ELSE gated[cat].v

\* C8: the gate runs on the normalized record, the override on the gated
\* one, the average on the overridden one: a category whose justification is
\* missing or under 30 characters is 0 after the gate and in the written
\* line, whatever its score was; the override never acts with fewer than two
\* flags and only ever turns a gated score above 4 into 3; and where all six
\* categories were scored (so that the mean has one reading) it acts exactly
\* when the gated scores average above 3.5, and the written Average is the
\* mean of the scores after it.
C8_GateThenOverrideThenAverage ==
    status = "saved" =>
        LET seen == [cat \in Categories |->
                        IF GivenJustification[cat] < 30 THEN 0
                        ELSE normalized[cat].v]
            total == seen[categories[1]] + seen[categories[2]]
                     + seen[categories[3]] + seen[categories[4]]
                     + seen[categories[5]] + seen[categories[6]]
            fires == GivenFlags >= 2 /\ 2 * total > 7 * 6
            after == ratings[categories[1]].v + ratings[categories[2]].v
                     + ratings[categories[3]].v + ratings[categories[4]].v
                     + ratings[categories[5]].v + ratings[categories[6]].v
            allScored == ScoredCategories(GivenItems) = Categories
        IN  /\ \A cat \in Categories : gated[cat].v = seen[cat]
            /\ \A cat \in Categories :
                  GivenJustification[cat] < 30 =>
                      /\ ratings[cat].v = 0
                      /\ WrittenLine.scores[cat] = "0"
            /\ \A cat \in Categories :
                  \/ ratings[cat].v = seen[cat]
                  \/ GivenFlags >= 2 /\ seen[cat] > 4 /\ ratings[cat].v = 3
            /\ allScored =>
                  \A cat \in Categories :
                      ratings[cat].v = IF fires /\ seen[cat] > 4 THEN 3
                                       ELSE seen[cat]
            /\ allScored =>
                  /\ 6 * avg_score - 10000 * after \in -3..3
                  /\ WrittenLine.Average = Repr(avg_score)
            /\ new_row.scores = ratings

\* a run where a category scored 5 had too short a justification, and the
\* other five, all 5, still set the override off
C8_Witness ==
    /\ status = "saved"
    /\ GivenFlags >= 2
    /\ \E cat \in Categories :
          /\ GivenJustification[cat] < 30
          /\ normalized[cat].v = 5
          /\ ratings[cat].v = 0
          /\ \A other \in Categories \ {cat} :
                normalized[other].v = 5 /\ ratings[other].v = 3
    /\ avg_score = 25000

\* C9, its second half: a session that reads the file, and writes it before
\* any other session has written, keeps every entry of another key that the
\* file held and adds its own.
C9_SequentialKeepsBoth ==
    [][ \A p \in Sessions :
          (/\ sessions[p].pc = "loaded"
           /\ sessions'[p].pc = "idle"
           /\ version' = version + 1
           /\ sessions[p].loaded = version)
          => /\ FormatRow(sessions'[p].new_row) \in
                  { history_file'.lines[i] : i \in DOMAIN history_file'.lines }
             /\ \A line \in Lines :
                  ~(/\ line.Company = sessions[p].company_name
                    /\ line.Quarter = sessions[p].quarter)
                  => line \in { history_file'.lines[i] :
                                  i \in DOMAIN history_file'.lines } ]_vars

\* C9, its first half: both sessions have saved entries of different keys,
\* and the file holds the later writer's entry without the other's
C9_LostUpdate ==
    \E p, q \in Sessions :
        /\ sessions[p].saved /\ sessions[q].saved
        /\ sessions[p].pc = "idle" /\ sessions[q].pc = "idle"
        /\ sessions[p].new_row.Company.text \notin NaValues
        /\ sessions[q].new_row.Company.text \notin NaValues
        /\ << sessions[p].new_row.Company, sessions[p].new_row.Quarter >>
             # << sessions[q].new_row.Company, sessions[q].new_row.Quarter >>
        /\ version = 2
        /\ Lines = { FormatRow(sessions[q].new_row) }

\* C10: a flat mapping category -> score is fed to the normalizer: a
\* canonical category it gives a valid score holds that score.
C10_FlatMappingAccepted ==
    (status = "saved" /\ response.kind = "dict" /\ response.has = {}) =>
        \A i \in DOMAIN response.top :
            (response.top[i][1] \in Categories /\ ValidScore(response.top[i][2]))
                => normalized[response.top[i][1]] = response.top[i][2]

====
